---- MODULE Spec2Model ----
(***************************************************************************)
(* Model of the block-driven deferred-action engine of this repository:    *)
(*   x/gov/genesis.go               InitGenesis                            *)
(*   x/gov/abci.go                  EndBlocker (V1 and V2 proposal drains) *)
(*   x/slashing/keeper/epoch_exec.go ExecuteEpoch                          *)
(*                                                                         *)
(* Coins are modelled as amounts of a single denomination.  The keeper    *)
(* methods EndBlocker and InitGenesis call (queue iteration, proposal and  *)
(* deposit storage, Tally) are not part of the sources at hand; they are   *)
(* modelled from the written specification and are marked as such.         *)
(***************************************************************************)
EXTENDS Integers, Sequences, FiniteSets, TLC

\* ------------------------------------------------------------------------
\* Bounds of the model
\* ------------------------------------------------------------------------
MaxTime == 2
MaxMsgs == 2
MaxActions == 3
MaxVoteSteps == 5

\* Two proposals: the drains treat every queue entry alike, and two entries give
\* every relative order of queue keys and every pairing of outcomes.
ProposalIds == {1, 2}
Times == 1..MaxTime
Depositors == {"d1", "d2"}
DepositorRank == [d \in Depositors |-> IF d = "d1" THEN 1 ELSE 2]

\* ------------------------------------------------------------------------
\* x/gov data model
\* ------------------------------------------------------------------------
StatusDepositPeriod == "DepositPeriod"
StatusVotingPeriod == "VotingPeriod"
StatusPassed == "Passed"
StatusRejected == "Rejected"
StatusFailed == "Failed"
TerminalStatuses == {StatusPassed, StatusRejected, StatusFailed}

AttributeValueProposalDropped == "proposal_dropped"
AttributeValueProposalPassed == "proposal_passed"
AttributeValueProposalRejected == "proposal_rejected"
AttributeValueProposalFailed == "proposal_failed"
EventTypeInactiveProposal == "inactive_proposal"
EventTypeActiveProposal == "active_proposal"
EventTypeMessage == "message"

NoProposal == [version |-> 0]
EmptyTallyResult == [yes |-> 0, no |-> 0, abstain |-> 0, veto |-> 0]
NoDeposits == [d \in Depositors |-> 0]

\* Tally parameters and bonded power of the worked examples of the specification.
TallyParams == [quorum |-> 40, threshold |-> 50, veto_threshold |-> 33]
TotalBonded == [power |-> 100]

\* Vote totals a voting-period proposal may carry: below quorum, rejected, passing.
VotesBelowQuorum == [yes |-> 10, no |-> 0, abstain |-> 0, veto |-> 0]
VotesRejected == [yes |-> 20, no |-> 30, abstain |-> 0, veto |-> 0]
VotesPassing == [yes |-> 50, no |-> 0, abstain |-> 0, veto |-> 0]
VoteChoices == {VotesBelowQuorum, VotesRejected, VotesPassing}

VARIABLES
    phase,          \* "boot" before InitGenesis, then "running" or "panicked"
    moduleAcc,      \* whether the governance module account exists
    balance,        \* balance of the governance module account
    totalDeposits,  \* InitGenesis' local sum of the imported deposits
    proposals,      \* proposal store: id -> proposal record or NoProposal
    votes,          \* vote store, summed per option: id -> totals
    deposits,       \* deposit store: id -> depositor -> amount (0: no deposit)
    inactiveQueue,  \* set of <<deposit_end_time, id>>
    activeQueue,    \* set of <<voting_end_time, id>>
    blockTime,      \* time of the last block EndBlocker ran for
    burned,         \* id -> amount burned on behalf of the proposal
    refunded,       \* id -> depositor -> amount refunded
    store,          \* base state written by payload handlers: set of <<id, idx>>
    events,         \* event log of the base context, block after block
    calls,          \* payload handler invocations: [time, id, idx, ok]
    log,            \* logger.Info records of EndBlocker
    epochPhase,     \* x/slashing: "idle", "done" or "panicked"
    epochQueue,     \* x/slashing: FIFO of deferred actions
    validators,     \* x/slashing: validator address -> [exists, jailed, slashed]
    epochEvents,    \* x/slashing: event log of the base context
    executed,       \* x/slashing: keys of the actions whose handler was run
    epochLog,       \* x/slashing: the handler runs: [key, type, addr, result]
    slashes,        \* x/slashing: slashes applied: [key, addr, height], key naming
                    \* the slash event whose recorded fraction is used
    openDeletes,    \* x/slashing: DeleteByKey calls made under the open iterator
    tallyVotes,     \* tally engine: the vote totals handed to Tally
    tallyResult     \* tally engine: the decision Tally returned for them

govVars == <<phase, moduleAcc, balance, totalDeposits, proposals, votes, deposits,
             inactiveQueue, activeQueue, blockTime, burned, refunded, store,
             events, calls, log>>
epochVars == <<epochPhase, epochQueue, validators, epochEvents, executed, epochLog,
               slashes, openDeletes>>
tallyVars == <<tallyVotes, tallyResult>>
vars == <<govVars, epochVars, tallyVars>>

\* ------------------------------------------------------------------------
\* Genesis state handed to InitGenesis
\* ------------------------------------------------------------------------
Versions == {1, 2}

\* Amount depositor d holds on proposal id in the imported deposits.
GenesisAmount(id, d) == IF d = "d1" THEN id ELSE DepositorRank[d] - 1

RECURSIVE SumOver(_, _)
SumOver(f, S) ==
    IF S = {} THEN 0
    ELSE LET x == CHOOSE y \in S : TRUE IN f[x] + SumOver(f, S \ {x})

SumDeposits(ds) == SumOver(ds, DOMAIN ds)

GenesisDeposits(id) == [d \in Depositors |-> GenesisAmount(id, d)]

Proposal(ver, st, dend, vend, n, dep) ==
    [version |-> ver, status |-> st, depositEndTime |-> dend, votingEndTime |-> vend,
     totalDeposit |-> dep, finalTally |-> EmptyTallyResult, nmsgs |-> n]

\* Message count of a proposal's payload: a V1 proposal carries one content object.
PayloadSizes(ver) == IF ver = 1 THEN {0} ELSE 1..MaxMsgs

\* The imported proposals an id may stand for, with the votes stored for it; the
\* total deposit is filled in per id by GenesisEntry.
GenesisChoices ==
    {[proposal |-> NoProposal, votes |-> EmptyTallyResult]}
    \cup {[proposal |-> Proposal(ver, StatusDepositPeriod, dend, 0, IF ver = 1 THEN 0 ELSE 1, 0),
           votes |-> EmptyTallyResult] : ver \in Versions, dend \in Times}
    \cup {[proposal |-> Proposal(c[1], StatusVotingPeriod, 0, c[2], c[3], 0),
           votes |-> c[4]] :
            c \in {x \in Versions \X Times \X (0..MaxMsgs) \X VoteChoices :
                      /\ x[3] \in PayloadSizes(x[1])
                      /\ (x[4] # VotesPassing => x[3] <= 1)}}
    \cup {[proposal |-> Proposal(ver, st, 0, 1, IF ver = 1 THEN 0 ELSE 1, 0),
           votes |-> EmptyTallyResult] : ver \in Versions, st \in TerminalStatuses}

GenesisStates == [ProposalIds -> GenesisChoices]

IsLive(p) == p.version # 0 /\ p.status \in {StatusDepositPeriod, StatusVotingPeriod}

\* data.Deposits of the genesis state g, per proposal.
DataDeposits(g) ==
    [id \in ProposalIds |-> IF IsLive(g[id].proposal) THEN GenesisDeposits(id) ELSE NoDeposits]

\* Live proposals carry the deposits of GenesisDeposits, finished ones carry none.
GenesisEntry(g, id) ==
    IF IsLive(g[id].proposal)
    THEN [g[id].proposal EXCEPT !.totalDeposit = SumDeposits(GenesisDeposits(id))]
    ELSE g[id].proposal

MaxBalance == SumOver([id \in ProposalIds |-> SumDeposits(GenesisDeposits(id))], ProposalIds)

\* ------------------------------------------------------------------------
\* InitGenesis (x/gov/genesis.go)
\* ------------------------------------------------------------------------
\* Mutant: the deposits are not compared with the module account balance.
InitGenesisPanics_NoBalanceCheck(g) == ~moduleAcc

\* The two panics of InitGenesis: no module account, or deposits # balance.
InitGenesisPanics(g) ==
    \/ ~moduleAcc
    \/ balance # SumOver([id \in ProposalIds |-> SumDeposits(DataDeposits(g)[id])], ProposalIds)

QueuedIds(g, ver, st) ==
    {i \in ProposalIds : /\ g[i].proposal.version = ver
                         /\ g[i].proposal.status = st}

\* Mutant: the loop over data.ProposalsV2 inserts nothing into the queues.
InsertQueues_SkipsV2(g) ==
    [inactive |-> {<<g[id].proposal.depositEndTime, id>> :
                      id \in QueuedIds(g, 1, StatusDepositPeriod)},
     active |-> {<<g[id].proposal.votingEndTime, id>> :
                    id \in QueuedIds(g, 1, StatusVotingPeriod)}]

\* The queue insertions of the two proposal loops of InitGenesis.
InsertQueues(g) ==
    [inactive |-> {<<g[id].proposal.depositEndTime, id>> :
                      id \in QueuedIds(g, 1, StatusDepositPeriod)
                              \cup QueuedIds(g, 2, StatusDepositPeriod)},
     active |-> {<<g[id].proposal.votingEndTime, id>> :
                    id \in QueuedIds(g, 1, StatusVotingPeriod)
                            \cup QueuedIds(g, 2, StatusVotingPeriod)}]

InitGenesis(g) ==
    /\ phase = "boot"
    /\ LET total == SumOver([id \in ProposalIds |-> SumDeposits(DataDeposits(g)[id])],
                            ProposalIds)
       IN  /\ totalDeposits' = IF moduleAcc THEN total ELSE 0
           /\ IF InitGenesisPanics(g)
              THEN /\ phase' = "panicked"
                   /\ UNCHANGED <<proposals, votes, deposits, inactiveQueue, activeQueue>>
              ELSE /\ phase' = "running"
                   /\ deposits' = DataDeposits(g)
                   /\ votes' = [id \in ProposalIds |-> g[id].votes]
                   /\ inactiveQueue' = InsertQueues(g).inactive
                   /\ activeQueue' = InsertQueues(g).active
                   /\ proposals' = [id \in ProposalIds |-> GenesisEntry(g, id)]
    /\ UNCHANGED <<moduleAcc, balance, blockTime, burned, refunded, store, events,
                   calls, log>>
    /\ UNCHANGED epochVars
    /\ UNCHANGED tallyVars

\* ------------------------------------------------------------------------
\* Keeper operations used by EndBlocker (modelled from the specification)
\* ------------------------------------------------------------------------
\* The context EndBlocker works on: the stores, the ledger and the logs.
Ctx ==
    [proposals |-> proposals, deposits |-> deposits, inactiveQueue |-> inactiveQueue,
     activeQueue |-> activeQueue, balance |-> balance, burned |-> burned,
     refunded |-> refunded, store |-> store, events |-> events, calls |-> calls,
     log |-> log, stop |-> FALSE]

\* Mutant: queue keys are ordered by proposal id before expiry time.
KeyLess_ById(a, b) == a[2] < b[2] \/ (a[2] = b[2] /\ a[1] < b[1])

KeyLess(a, b) == a[1] < b[1] \/ (a[1] = b[1] /\ a[2] < b[2])

\* The keys of S in ascending (time, id) order.
RECURSIVE SortKeys(_)
SortKeys(S) ==
    IF S = {} THEN <<>>
    ELSE LET m == CHOOSE k \in S : \A o \in S \ {k} : KeyLess(k, o)
         IN  <<m>> \o SortKeys(S \ {m})

\* Mutant: the iterator yields every entry of the queue, expired or not.
QueueIterator_NoCutoff(s, queue, endTime, ver) ==
    SortKeys({k \in queue : s.proposals[k[2]].version = ver})

\* iterate(cutoff) of a proposal queue: the entries with time <= endTime whose
\* proposal is stored under the given version, in ascending (time, id) order.
QueueIterator(s, queue, endTime, ver) ==
    SortKeys({k \in queue : k[1] <= endTime /\ s.proposals[k[2]].version = ver})

\* Mutant: the veto step of the tally is skipped.
Tally_NoVeto(v) ==
    LET total == v.yes + v.no + v.abstain + v.veto
    IN  IF total * 100 < TallyParams.quorum * TotalBonded.power
        THEN [passes |-> FALSE, burn |-> TRUE, tally |-> v]
        ELSE [passes |-> v.yes * 100 > TallyParams.threshold * (v.yes + v.no),
              burn |-> FALSE, tally |-> v]

\* Tally: quorum, veto and threshold decision over the summed votes.
Tally(v) ==
    LET total == v.yes + v.no + v.abstain + v.veto
        nonAbstain == v.yes + v.no + v.veto
    IN  IF total * 100 < TallyParams.quorum * TotalBonded.power
        THEN [passes |-> FALSE, burn |-> TRUE, tally |-> v]
        ELSE IF v.veto * 100 > TallyParams.veto_threshold * nonAbstain
        THEN [passes |-> FALSE, burn |-> FALSE, tally |-> v]
        ELSE [passes |-> v.yes * 100 > TallyParams.threshold * (v.yes + v.no),
              burn |-> FALSE, tally |-> v]

\* DeleteProposal: removes the proposal and the queue entries tied to it.
DeleteProposal(s, id) ==
    LET p == s.proposals[id]
    IN  [s EXCEPT !.proposals[id] = NoProposal,
                  !.inactiveQueue = @ \ {<<p.depositEndTime, id>>},
                  !.activeQueue = @ \ {<<p.votingEndTime, id>>}]

DeleteAndBurnDeposits(s, id) ==
    LET amount == SumDeposits(s.deposits[id])
    IN  [s EXCEPT !.deposits[id] = NoDeposits,
                  !.burned[id] = @ + amount,
                  !.balance = @ - amount]

RefundAndDeleteDeposits(s, id) ==
    [s EXCEPT !.deposits[id] = NoDeposits,
              !.refunded[id] = [d \in Depositors |-> @[d] + s.deposits[id][d]],
              !.balance = @ - SumDeposits(s.deposits[id])]

RemoveFromActiveProposalQueue(s, id, endTime) ==
    [s EXCEPT !.activeQueue = @ \ {<<endTime, id>>}]

SetProposal(s, id, p) == [s EXCEPT !.proposals[id] = p]

\* ------------------------------------------------------------------------
\* EndBlocker (x/gov/abci.go)
\* ------------------------------------------------------------------------
ProposalEvent(type, id, result) == [type |-> type, id |-> id, result |-> result, idx |-> 0]
HandlerEvent(id, idx) == [type |-> EventTypeMessage, id |-> id, result |-> "", idx |-> idx]
LogRecord(t, id, result, idx) == [time |-> t, id |-> id, result |-> result, idx |-> idx]
CallRecord(t, id, idx, ok) == [time |-> t, id |-> id, idx |-> idx, ok |-> ok]

\* Mutant: the deposits of a dropped proposal are left in place.
InactiveCallback_NoBurn(s, id, t) ==
    LET s1 == DeleteProposal(s, id)
    IN  [s1 EXCEPT !.events = Append(@, ProposalEvent(EventTypeInactiveProposal, id,
                                                      AttributeValueProposalDropped)),
                   !.log = Append(@, LogRecord(t, id, "deleted", -1)),
                   !.stop = FALSE]

\* Callback of the V1 inactive-queue drain; stop is the value it returns.
InactiveCallback(s, id, t) ==
    LET s1 == DeleteProposal(s, id)
        s2 == DeleteAndBurnDeposits(s1, id)
    IN  [s2 EXCEPT !.events = Append(@, ProposalEvent(EventTypeInactiveProposal, id,
                                                      AttributeValueProposalDropped)),
                   !.log = Append(@, LogRecord(t, id, "deleted", -1)),
                   !.stop = FALSE]

\* Mutant: the V2 drain drops the proposal without emitting the event.
InactiveCallbackV2_NoEvent(s, id, t) ==
    LET s1 == DeleteProposal(s, id)
        s2 == DeleteAndBurnDeposits(s1, id)
    IN  [s2 EXCEPT !.log = Append(@, LogRecord(t, id, "deleted", -1)),
                   !.stop = FALSE]

\* Callback of the V2 inactive-queue drain.
InactiveCallbackV2(s, id, t) ==
    LET s1 == DeleteProposal(s, id)
        s2 == DeleteAndBurnDeposits(s1, id)
    IN  [s2 EXCEPT !.events = Append(@, ProposalEvent(EventTypeInactiveProposal, id,
                                                      AttributeValueProposalDropped)),
                   !.log = Append(@, LogRecord(t, id, "deleted", -1)),
                   !.stop = FALSE]

\* Mutant: the deposits are refunded whatever the tally says.
SettleDeposits_AlwaysRefund(s, id, res) == RefundAndDeleteDeposits(s, id)

\* Settlement of the deposits by the tally outcome.
SettleDeposits(s, id, res) ==
    IF res.burn THEN DeleteAndBurnDeposits(s, id) ELSE RefundAndDeleteDeposits(s, id)

\* Mutant: the queue entry is removed under the deposit end time.
FinishActive_WrongQueueKey(s, id, t, p, status, tagValue, logMsg, idx, res) ==
    LET q == [p EXCEPT !.status = status, !.finalTally = res.tally]
        s1 == SetProposal(s, id, q)
        s2 == RemoveFromActiveProposalQueue(s1, id, q.depositEndTime)
    IN  [s2 EXCEPT !.log = Append(@, LogRecord(t, id, logMsg, idx)),
                   !.events = Append(@, ProposalEvent(EventTypeActiveProposal, id, tagValue)),
                   !.stop = FALSE]

\* Tail of both active-queue callbacks: persist, dequeue, log, emit, return false.
\* Mutant: the tail of the active callbacks leaves the entry in the active queue.
FinishActive_NoDequeue(s, id, t, p, status, tagValue, logMsg, idx, res) ==
    LET q == [p EXCEPT !.status = status, !.finalTally = res.tally]
        s1 == SetProposal(s, id, q)
    IN  [s1 EXCEPT !.log = Append(@, LogRecord(t, id, logMsg, idx)),
                   !.events = Append(@, ProposalEvent(EventTypeActiveProposal, id, tagValue)),
                   !.stop = FALSE]

FinishActive(s, id, t, p, status, tagValue, logMsg, idx, res) ==
    LET q == [p EXCEPT !.status = status, !.finalTally = res.tally]
        s1 == SetProposal(s, id, q)
        s2 == RemoveFromActiveProposalQueue(s1, id, q.votingEndTime)
    IN  [s2 EXCEPT !.log = Append(@, LogRecord(t, id, logMsg, idx)),
                   !.events = Append(@, ProposalEvent(EventTypeActiveProposal, id, tagValue)),
                   !.stop = FALSE]

\* Mutant: the callback ends the iteration when the handler failed.
ActiveCallback_StopsOnFailure(s, id, t, fail) ==
    LET p == s.proposals[id]
        res == Tally(votes[id])
        s1 == SettleDeposits(s, id, res)
    IN  IF res.passes
        THEN LET cacheStore == s1.store \cup {<<id, 1>>}
                 cacheEvents == <<HandlerEvent(id, 1)>>
                 s2 == [s1 EXCEPT !.calls = Append(@, CallRecord(t, id, 1, ~fail))]
             IN  IF ~fail
                 THEN FinishActive([s2 EXCEPT !.events = @ \o cacheEvents,
                                              !.store = cacheStore],
                                   id, t, p, StatusPassed, AttributeValueProposalPassed,
                                   "passed", -1, res)
                 ELSE [FinishActive(s2, id, t, p, StatusFailed,
                                    AttributeValueProposalFailed, "failed", -1, res)
                          EXCEPT !.stop = TRUE]
        ELSE FinishActive(s1, id, t, p, StatusRejected, AttributeValueProposalRejected,
                          "rejected", -1, res)

\* Callback of the V1 active-queue drain.  fail: whether the content handler
\* returns an error.  The handler runs on the cached context: its write and its
\* event reach the base context only through writeCache and EmitEvents.
ActiveCallback(s, id, t, fail) ==
    LET p == s.proposals[id]
        res == Tally(votes[id])
        s1 == SettleDeposits(s, id, res)
    IN  IF res.passes
        THEN LET cacheStore == s1.store \cup {<<id, 1>>}
                 cacheEvents == <<HandlerEvent(id, 1)>>
                 s2 == [s1 EXCEPT !.calls = Append(@, CallRecord(t, id, 1, ~fail))]
             IN  IF ~fail
                 THEN FinishActive([s2 EXCEPT !.events = @ \o cacheEvents,
                                              !.store = cacheStore],
                                   id, t, p, StatusPassed, AttributeValueProposalPassed,
                                   "passed", -1, res)
                 ELSE FinishActive(s2, id, t, p, StatusFailed,
                                   AttributeValueProposalFailed, "failed", -1, res)
        ELSE FinishActive(s1, id, t, p, StatusRejected, AttributeValueProposalRejected,
                          "rejected", -1, res)

\* The message loop of the V2 callback from message k on.  failAt: the message
\* (counted from 1) whose handler returns an error, 0 when none does.  c holds
\* the cached store and events, the handler calls and the loop variable idx.
\* Mutant: the message loop does not break on a handler error.
RECURSIVE RunMessages_NoBreak(_, _, _, _, _, _)
RunMessages_NoBreak(c, id, t, k, n, failAt) ==
    IF k > n THEN c
    ELSE RunMessages_NoBreak([c EXCEPT !.store = @ \cup {<<id, k>>},
                                       !.events = Append(@, HandlerEvent(id, k)),
                                       !.calls = Append(@, CallRecord(t, id, k, k # failAt)),
                                       !.idx = k - 1],
                             id, t, k + 1, n, failAt)

RECURSIVE RunMessages(_, _, _, _, _, _)
RunMessages(c, id, t, k, n, failAt) ==
    IF k > n THEN c
    ELSE LET c1 == [c EXCEPT !.store = @ \cup {<<id, k>>},
                             !.events = Append(@, HandlerEvent(id, k)),
                             !.calls = Append(@, CallRecord(t, id, k, k # failAt)),
                             !.idx = k - 1]
         IN  IF k = failAt THEN c1 ELSE RunMessages(c1, id, t, k + 1, n, failAt)

\* The err the V2 callback tests after the loop.  The loop body declares its own
\* err (`_, err := handler(cacheCtx, msg)`), so the outer one keeps its zero
\* value whatever the handlers return.
OuterErr(failAt) == FALSE

\* Callback of the V2 active-queue drain.
ActiveCallbackV2(s, id, t, failAt) ==
    LET p == s.proposals[id]
        res == Tally(votes[id])
        s1 == SettleDeposits(s, id, res)
    IN  IF res.passes
        THEN LET c == RunMessages([store |-> s1.store, events |-> <<>>,
                                   calls |-> s1.calls, idx |-> 0],
                                  id, t, 1, p.nmsgs, failAt)
                 s2 == [s1 EXCEPT !.calls = c.calls]
             IN  IF ~OuterErr(failAt)
                 THEN FinishActive([s2 EXCEPT !.events = @ \o c.events,
                                              !.store = c.store],
                                   id, t, p, StatusPassed, AttributeValueProposalPassed,
                                   "passed", -1, res)
                 ELSE FinishActive(s2, id, t, p, StatusFailed,
                                   AttributeValueProposalFailed, "failed", c.idx, res)
        ELSE FinishActive(s1, id, t, p, StatusRejected, AttributeValueProposalRejected,
                          "rejected", -1, res)

Outcome(h, id) == IF id \in DOMAIN h THEN h[id] ELSE 0

\* The queue iterations: the callback runs on each entry in turn until it
\* returns true.
RECURSIVE IterateInactiveProposalsQueue(_, _, _)
IterateInactiveProposalsQueue(s, keys, t) ==
    IF keys = <<>> \/ s.stop THEN s
    ELSE IterateInactiveProposalsQueue(InactiveCallback(s, Head(keys)[2], t), Tail(keys), t)

RECURSIVE IterateActiveProposalsQueue(_, _, _, _)
IterateActiveProposalsQueue(s, keys, t, h) ==
    IF keys = <<>> \/ s.stop THEN s
    ELSE IterateActiveProposalsQueue(
             ActiveCallback(s, Head(keys)[2], t, Outcome(h, Head(keys)[2]) # 0),
             Tail(keys), t, h)

RECURSIVE IterateInactiveProposalsQueueV2(_, _, _)
IterateInactiveProposalsQueueV2(s, keys, t) ==
    IF keys = <<>> \/ s.stop THEN s
    ELSE IterateInactiveProposalsQueueV2(InactiveCallbackV2(s, Head(keys)[2], t),
                                         Tail(keys), t)

RECURSIVE IterateActiveProposalsQueueV2(_, _, _, _)
IterateActiveProposalsQueueV2(s, keys, t, h) ==
    IF keys = <<>> \/ s.stop THEN s
    ELSE IterateActiveProposalsQueueV2(
             ActiveCallbackV2(s, Head(keys)[2], t, Outcome(h, Head(keys)[2])),
             Tail(keys), t, h)

Resume(s) == [s EXCEPT !.stop = FALSE]

\* The four drains of one EndBlocker call at block time t.
EndBlockerResult(s, t, h) ==
    LET s1 == Resume(IterateInactiveProposalsQueue(
                         s, QueueIterator(s, s.inactiveQueue, t, 1), t))
        s2 == Resume(IterateActiveProposalsQueue(
                         s1, QueueIterator(s1, s1.activeQueue, t, 1), t, h))
        s3 == Resume(IterateInactiveProposalsQueueV2(
                         s2, QueueIterator(s2, s2.inactiveQueue, t, 2), t))
    IN  IterateActiveProposalsQueueV2(s3, QueueIterator(s3, s3.activeQueue, t, 2), t, h)

\* The proposals whose payload an EndBlocker call at time t executes.
Executing(t) ==
    {id \in ProposalIds :
        /\ proposals[id].version # 0
        /\ proposals[id].status = StatusVotingPeriod
        /\ <<proposals[id].votingEndTime, id>> \in activeQueue
        /\ proposals[id].votingEndTime <= t
        /\ Tally(votes[id]).passes}

\* The outcomes the handlers of the executing payloads may have.
HandlerOutcomes(t) ==
    {h \in [Executing(t) -> 0..MaxMsgs] :
        \A id \in Executing(t) :
            h[id] <= (IF proposals[id].version = 1 THEN 1 ELSE proposals[id].nmsgs)}

EndBlocker(t, h) ==
    /\ phase = "running"
    /\ t >= blockTime
    /\ LET r == EndBlockerResult(Ctx, t, h)
       IN  /\ proposals' = r.proposals
           /\ deposits' = r.deposits
           /\ inactiveQueue' = r.inactiveQueue
           /\ activeQueue' = r.activeQueue
           /\ balance' = r.balance
           /\ burned' = r.burned
           /\ refunded' = r.refunded
           /\ store' = r.store
           /\ events' = r.events
           /\ calls' = r.calls
           /\ log' = r.log
    /\ blockTime' = t
    /\ UNCHANGED <<phase, moduleAcc, totalDeposits, votes>>
    /\ UNCHANGED epochVars
    /\ UNCHANGED tallyVars

\* ------------------------------------------------------------------------
\* Specification of the governance module
\* ------------------------------------------------------------------------
EpochIdle ==
    /\ epochPhase = "idle"
    /\ epochQueue = <<>>
    /\ validators = <<>>
    /\ epochEvents = <<>>
    /\ executed = <<>>
    /\ epochLog = <<>>
    /\ slashes = {}
    /\ openDeletes = 0

NoTallyResult == [passes |-> FALSE, burn |-> FALSE, tally |-> EmptyTallyResult, done |-> FALSE]

TallyIdle ==
    /\ tallyVotes = EmptyTallyResult
    /\ tallyResult = NoTallyResult

Init ==
    /\ phase = "boot"
    /\ moduleAcc \in BOOLEAN
    /\ balance \in 0..MaxBalance
    /\ totalDeposits = 0
    /\ proposals = [id \in ProposalIds |-> NoProposal]
    /\ votes = [id \in ProposalIds |-> EmptyTallyResult]
    /\ deposits = [id \in ProposalIds |-> NoDeposits]
    /\ inactiveQueue = {}
    /\ activeQueue = {}
    /\ blockTime = 0
    /\ burned = [id \in ProposalIds |-> 0]
    /\ refunded = [id \in ProposalIds |-> NoDeposits]
    /\ store = {}
    /\ events = <<>>
    /\ calls = <<>>
    /\ log = <<>>
    /\ EpochIdle
    /\ TallyIdle

Next ==
    \/ \E g \in GenesisStates : InitGenesis(g)
    \/ \E t \in Times : \E h \in HandlerOutcomes(t) : EndBlocker(t, h)

Spec == Init /\ [][Next]_vars

\* ------------------------------------------------------------------------
\* x/slashing: deferred actions (x/slashing/keeper/epoch_exec.go)
\* ------------------------------------------------------------------------
ValAddrs == {"val1", "val2"}
\* Address strings an unjail request may carry; "garbage" is no bech32 address.
AddrStrings == ValAddrs \cup {"garbage"}
ValidatorStates == {"absent", "bonded", "jailed"}

TypeMsgUnjail == "MsgUnjail"
TypeSlashEvent == "SlashEvent"

ActionChoices ==
    [type : {TypeMsgUnjail}, addr : AddrStrings] \cup [type : {TypeSlashEvent}, addr : ValAddrs]

\* ValAddressFromBech32: the parsed address, or an error.
ValAddressFromBech32(str) ==
    IF str \in ValAddrs THEN [err |-> FALSE, addr |-> str] ELSE [err |-> TRUE, addr |-> ""]

\* Unjail of the slashing keeper: refused unless the validator exists and is jailed.
Unjail(vals, addr) ==
    IF vals[addr] = "jailed"
    THEN [err |-> FALSE, vals |-> [vals EXCEPT ![addr] = "bonded"]]
    ELSE [err |-> TRUE, vals |-> vals]

\* executeQueuedUnjailMsg on a context with validators vals.
executeQueuedUnjailMsg(vals, msg) ==
    LET parsed == ValAddressFromBech32(msg.addr)
    IN  IF parsed.err THEN [err |-> TRUE, vals |-> vals, events |-> <<>>]
        ELSE LET u == Unjail(vals, parsed.addr)
             IN  IF u.err THEN [err |-> TRUE, vals |-> vals, events |-> <<>>]
                 ELSE [err |-> FALSE, vals |-> u.vals,
                       events |-> <<[type |-> EventTypeMessage, sender |-> msg.addr]>>]

\* executeQueuedSlashEvent: "err" when the validator lookup finds the validator
\* (`validator != nil` returns ErrBadValidatorAddr); otherwise validator is the
\* nil interface and validator.GetConsAddr() panics.
executeQueuedSlashEvent(vals, msg) ==
    IF vals[msg.addr] # "absent" THEN "err" ELSE "panic"

\* ctx.BlockHeight() of the block ExecuteEpoch runs in, and the height a slash
\* of that block is applied at.
EpochHeight == 10
ValidatorUpdateDelay == 1
DistributionHeight == EpochHeight - ValidatorUpdateDelay - 1

EpochRun(a, result) == [key |-> a.key, type |-> a.type, addr |-> a.addr, result |-> result]

\* The loop of ExecuteEpoch from the head of the queue on.  Each action gets a
\* cached context; an unjail runs on it and is committed by writeCache when it
\* returns no error (its events stay in the cached context's event manager).
\* A slash event runs on ctx itself.  DeleteByKey is called inside the loop,
\* while the iterator the loop advances is open.
RECURSIVE RunEpoch(_)
RunEpoch(e) ==
    IF e.queue = <<>> THEN e
    ELSE LET a == Head(e.queue)
             ran == [e EXCEPT !.executed = Append(@, a.key)]
         IN  IF a.type = TypeMsgUnjail
             THEN LET r == executeQueuedUnjailMsg(e.validators, a)
                  IN  RunEpoch([ran EXCEPT
                                   !.validators = IF r.err THEN @ ELSE r.vals,
                                   !.log = Append(@, EpochRun(a, IF r.err THEN "err" ELSE "ok")),
                                   !.queue = Tail(@),
                                   !.openDeletes = @ + 1])
             ELSE IF executeQueuedSlashEvent(e.validators, a) = "panic"
                  THEN [ran EXCEPT !.panicked = TRUE,
                                   !.log = Append(@, EpochRun(a, "panic"))]
                  ELSE RunEpoch([ran EXCEPT !.log = Append(@, EpochRun(a, "err")),
                                            !.queue = Tail(@),
                                            !.openDeletes = @ + 1])

ExecuteEpoch ==
    /\ epochPhase # "panicked"
    /\ LET r == RunEpoch([queue |-> epochQueue, validators |-> validators,
                          events |-> epochEvents, executed |-> executed,
                          log |-> epochLog, slashes |-> slashes,
                          openDeletes |-> openDeletes, panicked |-> FALSE])
       IN  /\ epochQueue' = r.queue
           /\ validators' = r.validators
           /\ epochEvents' = r.events
           /\ executed' = r.executed
           /\ epochLog' = r.log
           /\ slashes' = r.slashes
           /\ openDeletes' = r.openDeletes
           /\ epochPhase' = IF r.panicked THEN "panicked" ELSE "done"
    /\ UNCHANGED govVars
    /\ UNCHANGED tallyVars

\* The queues of at most MaxActions actions, keyed by their FIFO position.
RECURSIVE ActionSeqs(_)
ActionSeqs(n) ==
    IF n = 0 THEN {<<>>}
    ELSE LET shorter == ActionSeqs(n - 1)
         IN  shorter \cup
             {Append(q, [key |-> Len(q) + 1, type |-> c.type, addr |-> c.addr]) :
                 q \in {x \in shorter : Len(x) = n - 1}, c \in ActionChoices}

GovIdle ==
    /\ phase = "boot"
    /\ moduleAcc = FALSE
    /\ balance = 0
    /\ totalDeposits = 0
    /\ proposals = [id \in ProposalIds |-> NoProposal]
    /\ votes = [id \in ProposalIds |-> EmptyTallyResult]
    /\ deposits = [id \in ProposalIds |-> NoDeposits]
    /\ inactiveQueue = {}
    /\ activeQueue = {}
    /\ blockTime = 0
    /\ burned = [id \in ProposalIds |-> 0]
    /\ refunded = [id \in ProposalIds |-> NoDeposits]
    /\ store = {}
    /\ events = <<>>
    /\ calls = <<>>
    /\ log = <<>>

InitEpoch ==
    /\ GovIdle
    /\ epochPhase = "idle"
    /\ epochQueue \in ActionSeqs(MaxActions)
    /\ validators \in [ValAddrs -> ValidatorStates]
    /\ epochEvents = <<>>
    /\ executed = <<>>
    /\ epochLog = <<>>
    /\ slashes = {}
    /\ openDeletes = 0
    /\ TallyIdle

NextEpoch == ExecuteEpoch

SpecEpoch == InitEpoch /\ [][NextEpoch]_vars

\* ------------------------------------------------------------------------
\* Tally Engine, on its own and as the active drain uses it
\* ------------------------------------------------------------------------
\* Weighted vote totals, each option in steps of a tenth of the bonded power,
\* at most the bonded power in all.
VoteWeights == {10 * k : k \in 0..MaxVoteSteps}
VoteGrid ==
    {v \in [yes : VoteWeights, no : VoteWeights, abstain : VoteWeights, veto : VoteWeights] :
        v.yes + v.no + v.abstain + v.veto <= TotalBonded.power}

\* The proposal whose votes are tallied.
TallyProposalId == CHOOSE id \in ProposalIds : \A j \in ProposalIds : id <= j

\* keeper.Tally applied to the vote totals drawn at the start.
TallyProposal ==
    /\ ~tallyResult.done
    /\ LET r == Tally(tallyVotes)
       IN  tallyResult' = [passes |-> r.passes, burn |-> r.burn, tally |-> r.tally,
                           done |-> TRUE]
    /\ UNCHANGED tallyVotes
    /\ UNCHANGED govVars
    /\ UNCHANGED epochVars

\* A chain that holds one proposal in its voting period, with any vote totals
\* of the grid and the deposits of GenesisDeposits, as InitGenesis leaves it.
InitTally ==
    /\ tallyVotes \in VoteGrid
    /\ tallyResult = NoTallyResult
    /\ EpochIdle
    /\ phase = "running"
    /\ moduleAcc = TRUE
    /\ balance = SumDeposits(GenesisDeposits(TallyProposalId))
    /\ totalDeposits = balance
    /\ \E ver \in Versions :
          proposals = [id \in ProposalIds |->
                          IF id = TallyProposalId
                          THEN Proposal(ver, StatusVotingPeriod, 0, MaxTime,
                                        IF ver = 1 THEN 0 ELSE 1, balance)
                          ELSE NoProposal]
    /\ votes = [id \in ProposalIds |->
                   IF id = TallyProposalId THEN tallyVotes ELSE EmptyTallyResult]
    /\ deposits = [id \in ProposalIds |->
                      IF id = TallyProposalId THEN GenesisDeposits(id) ELSE NoDeposits]
    /\ inactiveQueue = {}
    /\ activeQueue = {<<MaxTime, TallyProposalId>>}
    /\ blockTime = 0
    /\ burned = [id \in ProposalIds |-> 0]
    /\ refunded = [id \in ProposalIds |-> NoDeposits]
    /\ store = {}
    /\ events = <<>>
    /\ calls = <<>>
    /\ log = <<>>

NextTally ==
    \/ TallyProposal
    \/ \E t \in Times : \E h \in HandlerOutcomes(t) : EndBlocker(t, h)

SpecTally == InitTally /\ [][NextTally]_vars

\* ========================================================================
\* Properties
\* ========================================================================
Running == phase = "running"

\* The handler calls, events and log records a step appends.
NewCalls == SubSeq(calls', Len(calls) + 1, Len(calls'))
NewEvents == SubSeq(events', Len(events) + 1, Len(events'))

IsStored(id) == proposals[id].version # 0
ExpiredInactive(id, t) ==
    /\ IsStored(id)
    /\ proposals[id].status = StatusDepositPeriod
    /\ proposals[id].depositEndTime <= t
ExpiredActive(id, t) ==
    /\ IsStored(id)
    /\ proposals[id].status = StatusVotingPeriod
    /\ proposals[id].votingEndTime <= t

FailedCalls == {i \in 1..Len(calls) : ~calls[i].ok}

\* C1: a passed proposal whose payload execution fails (the V1 content handler
\* or a message handler of a V2 message list returns an error) is persisted
\* with status Failed, and for a message list the index of the failing message
\* is the one recorded.
C1_ExecutionFailureGivesFailed ==
    \A i \in FailedCalls :
        LET id == calls[i].id
        IN  /\ proposals[id].status = StatusFailed
            /\ proposals[id].version = 2 =>
                 \E j \in 1..Len(log) :
                    /\ log[j].id = id
                    /\ log[j].result = "failed"
                    /\ log[j].idx = calls[i].idx - 1

\* C2: when the payload execution fails, no write and no event of any handler
\* of that payload (the ones that succeeded before the failing one included)
\* is visible in the base state or the base event log.
C2_FailureLeavesNoWriteNoEvent ==
    \A i \in FailedCalls :
        LET id == calls[i].id
        IN  /\ \A w \in store : w[1] # id
            /\ \A j \in 1..Len(events) :
                  ~(events[j].type = EventTypeMessage /\ events[j].id = id)

InInactiveQueue(id) == \E k \in inactiveQueue : k[2] = id
InActiveQueue(id) == \E k \in activeQueue : k[2] = id

\* The step is an EndBlocker call (at block time blockTime').
EndBlockerStep == Running /\ Running'

\* C3: a proposal in DepositPeriod whose deposit_end_time is <= the block time
\* is gone after the EndBlocker call together with its deposits and its queue
\* entry, the amount burned for it grows by exactly its total_deposit, and
\* nothing is burned for a proposal that is no longer stored.
C3_ExpiredDepositDroppedBurnedOnce ==
    [][EndBlockerStep =>
        \A id \in ProposalIds :
            /\ ExpiredInactive(id, blockTime') =>
                  /\ proposals'[id] = NoProposal
                  /\ deposits'[id] = NoDeposits
                  /\ ~InInactiveQueue(id)'
                  /\ burned'[id] = burned[id] + proposals[id].totalDeposit
            /\ ~IsStored(id) => burned'[id] = burned[id]]_vars

\* A dropped proposal: deleted, its deposits burned, the event emitted.
C3_Witness ==
    \E id \in ProposalIds :
        /\ Running
        /\ ~IsStored(id)
        /\ burned[id] = SumDeposits(GenesisDeposits(id))
        /\ burned[id] > 0
        /\ \E j \in 1..Len(events) :
              events[j] = ProposalEvent(EventTypeInactiveProposal, id,
                                        AttributeValueProposalDropped)

\* C4: a proposal in VotingPeriod whose voting_end_time is <= the block time
\* has, after the EndBlocker call, a status among Passed, Rejected, Failed, the
\* tally of that call as its final_tally_result, and no entry left in the
\* active queue.
C4_ExpiredVotingResolved ==
    [][EndBlockerStep =>
        \A id \in ProposalIds :
            ExpiredActive(id, blockTime') =>
                /\ proposals'[id].version = proposals[id].version
                /\ proposals'[id].status \in TerminalStatuses
                /\ proposals'[id].finalTally = Tally(votes[id]).tally
                /\ <<proposals[id].votingEndTime, id>> \notin activeQueue'
                /\ ~InActiveQueue(id)']_vars

\* A proposal resolved by a drain: terminal, with the tally recorded.
C4_Witness ==
    \E id \in ProposalIds :
        /\ Running
        /\ IsStored(id)
        /\ proposals[id].status \in TerminalStatuses
        /\ proposals[id].finalTally = votes[id]
        /\ proposals[id].finalTally # EmptyTallyResult
        /\ proposals[id].votingEndTime <= blockTime

\* C5: the deposits of an expired voting-period proposal are settled by the
\* tally outcome alone: burned when burn=true, refunded to each depositor
\* otherwise, and the settlement stands whatever the payload execution does.
C5_DepositsSettledByTally ==
    [][EndBlockerStep =>
        \A id \in ProposalIds :
            ExpiredActive(id, blockTime') =>
                /\ deposits'[id] = NoDeposits
                /\ IF Tally(votes[id]).burn
                   THEN /\ burned'[id] = burned[id] + SumDeposits(deposits[id])
                        /\ refunded'[id] = refunded[id]
                   ELSE /\ burned'[id] = burned[id]
                        /\ refunded'[id] =
                             [d \in Depositors |-> refunded[id][d] + deposits[id][d]]]_vars

\* A proposal that failed on execution and whose deposits stay refunded, and a
\* proposal below quorum whose deposits were burned.
C5_Witness ==
    /\ \E id \in ProposalIds :
          /\ IsStored(id)
          /\ proposals[id].status = StatusFailed
          /\ proposals[id].finalTally # EmptyTallyResult
          /\ refunded[id] = GenesisDeposits(id)
          /\ deposits[id] = NoDeposits
          /\ burned[id] = 0
    /\ \E id \in ProposalIds :
          /\ IsStored(id)
          /\ proposals[id].status = StatusRejected
          /\ burned[id] = SumDeposits(GenesisDeposits(id))
          /\ burned[id] > 0

TagOf(status) ==
    CASE status = StatusPassed -> AttributeValueProposalPassed
      [] status = StatusRejected -> AttributeValueProposalRejected
      [] status = StatusFailed -> AttributeValueProposalFailed
      [] OTHER -> ""

\* The terminal events an EndBlocker step appends for proposal id.
NewTerminalEvents(id) ==
    {j \in 1..Len(NewEvents) :
        /\ NewEvents[j].id = id
        /\ NewEvents[j].type \in {EventTypeInactiveProposal, EventTypeActiveProposal}}

\* C6: every queue entry drained by EndBlocker produces exactly one terminal
\* event with its proposal id: Dropped for an inactive-queue entry, and the
\* tag of the persisted status for an active-queue entry.
C6_OneTerminalEventPerEntry ==
    [][EndBlockerStep =>
        \A id \in ProposalIds :
            /\ ExpiredInactive(id, blockTime') =>
                  \E j \in 1..Len(NewEvents) :
                      /\ NewTerminalEvents(id) = {j}
                      /\ NewEvents[j] = ProposalEvent(EventTypeInactiveProposal, id,
                                                      AttributeValueProposalDropped)
            /\ ExpiredActive(id, blockTime') =>
                  \E j \in 1..Len(NewEvents) :
                      /\ NewTerminalEvents(id) = {j}
                      /\ NewEvents[j] = ProposalEvent(EventTypeActiveProposal, id,
                                                      TagOf(proposals'[id].status))]_vars

\* A Failed proposal with its Failed event, and a dropped V2 proposal's event
\* after the event of a V1 proposal tallied in the same block.
C6_Witness ==
    /\ \E id \in ProposalIds :
          /\ IsStored(id)
          /\ proposals[id].status = StatusFailed
          /\ \E j \in 1..Len(events) :
                events[j] = ProposalEvent(EventTypeActiveProposal, id,
                                          AttributeValueProposalFailed)
    /\ \E i, j \in 1..Len(events) :
          /\ i < j
          /\ events[i].type = EventTypeActiveProposal
          /\ events[j].type = EventTypeInactiveProposal

\* C7: a failing payload execution does not halt the drain: in an EndBlocker
\* call in which some handler returned an error, every expired active-queue
\* entry is tallied, settled, given a terminal status and removed.
C7_FailureDoesNotHaltDrain ==
    [][(EndBlockerStep /\ \E i \in 1..Len(NewCalls) : ~NewCalls[i].ok) =>
        \A id \in ProposalIds :
            ExpiredActive(id, blockTime') =>
                /\ proposals'[id].status \in TerminalStatuses
                /\ proposals'[id].finalTally = Tally(votes[id]).tally
                /\ deposits'[id] = NoDeposits
                /\ ~InActiveQueue(id)'
                /\ \E j \in 1..Len(log') : log'[j].id = id /\ log'[j].time = blockTime']_vars

\* Two entries tallied in one block, the first of which failed on execution.
C7_Witness ==
    \E i, j \in 1..Len(log) :
        /\ i < j
        /\ log[i].time = log[j].time
        /\ log[i].result = "failed"
        /\ log[j].result \in {"passed", "rejected", "failed"}
        /\ proposals[log[j].id].status \in TerminalStatuses

\* C8: after InitGenesis and any EndBlocker calls, a stored proposal is in the
\* inactive queue iff its status is DepositPeriod (under its deposit end
\* time), in the active queue iff its status is VotingPeriod (under its voting
\* end time), and a proposal that is not stored is in neither.
C8_QueueMembershipMatchesStatus ==
    Running =>
        \A id \in ProposalIds :
            IF IsStored(id)
            THEN /\ InInactiveQueue(id) <=> proposals[id].status = StatusDepositPeriod
                 /\ InActiveQueue(id) <=> proposals[id].status = StatusVotingPeriod
                 /\ proposals[id].status = StatusDepositPeriod =>
                       <<proposals[id].depositEndTime, id>> \in inactiveQueue
                 /\ proposals[id].status = StatusVotingPeriod =>
                       <<proposals[id].votingEndTime, id>> \in activeQueue
            ELSE ~InInactiveQueue(id) /\ ~InActiveQueue(id)

\* After a drain: one V2 proposal still queued, the other one resolved.
C8_Witness ==
    /\ Running
    /\ blockTime > 0
    /\ \E id \in ProposalIds :
          /\ proposals[id].version = 2
          /\ (InInactiveQueue(id) \/ InActiveQueue(id))
    /\ \E id \in ProposalIds :
          /\ IsStored(id)
          /\ proposals[id].status \in TerminalStatuses
          /\ proposals[id].finalTally # EmptyTallyResult

SumAllDeposits(ds) == SumOver([id \in ProposalIds |-> SumDeposits(ds[id])], ProposalIds)

\* C9: InitGenesis completes iff the module account exists and the imported
\* deposits add up to the module account balance, and panics otherwise.
C9_InitGenesisCompletesIffBalanced ==
    [][phase = "boot" =>
        /\ phase' \in {"running", "panicked"}
        /\ phase' = "running" => (moduleAcc /\ SumAllDeposits(deposits') = balance)
        /\ phase' = "panicked" => (~moduleAcc \/ totalDeposits' # balance)]_vars

\* InitGenesis completed with deposits imported.
C9_Witness ==
    /\ Running
    /\ blockTime = 0
    /\ totalDeposits > 0
    /\ SumAllDeposits(deposits) = totalDeposits

NoDuplicates(q) == \A i, j \in 1..Len(q) : q[i] = q[j] => i = j

\* C10: ExecuteEpoch removes every deferred action it was handed, whatever its
\* handler does, and no action is executed more than once.
C10_EveryActionDequeuedOnce ==
    epochPhase # "idle" => (epochQueue = <<>> /\ NoDuplicates(executed))

\* ------------------------------------------------------------------------
\* Deferred actions
\* ------------------------------------------------------------------------
\* What the validators are after each action of q ran in a scope of its own:
\* an unjail that succeeds is committed, a failing action changes nothing.
RECURSIVE IsolatedRun(_, _)
IsolatedRun(vals, q) ==
    IF q = <<>> THEN vals
    ELSE LET a == Head(q)
             ok == /\ a.type = TypeMsgUnjail
                   /\ a.addr \in ValAddrs
                   /\ vals[a.addr] = "jailed"
         IN  IsolatedRun(IF ok THEN [vals EXCEPT ![a.addr] = "bonded"] ELSE vals, Tail(q))

\* C11: every deferred action runs in a scope of its own: a succeeding handler
\* is committed, a failing one leaves the base state as it was but for the
\* removal of the action, and the loop goes on with the next action.
C11_EachActionIsolatedAndDrained ==
    [][epochPhase # "panicked" =>
        /\ epochPhase' = "done"
        /\ epochQueue' = <<>>
        /\ Len(epochLog') = Len(epochLog) + Len(epochQueue)
        /\ validators' = IsolatedRun(validators, epochQueue)]_vars

\* The runs of the epoch log that handled an action of type ty.
RunsOf(ty) == {i \in 1..Len(epochLog) : epochLog[i].type = ty}

\* C15: a queued SlashEvent whose validator exists slashes that validator at
\* distribution height = block height - validator update delay - 1 with the
\* fraction recorded in the event, and no SlashEvent makes ExecuteEpoch abort.
C15_SlashEventSlashesKnownValidator ==
    \A i \in RunsOf(TypeSlashEvent) :
        /\ epochLog[i].result # "panic"
        /\ epochPhase # "panicked"
        /\ (epochLog[i].addr \in ValAddrs /\ validators[epochLog[i].addr] # "absent")
              => [key |-> epochLog[i].key, addr |-> epochLog[i].addr,
                  height |-> DistributionHeight] \in slashes

\* The message-processed events of the base event log sent by validator a.
UnjailEventsOf(a) == {j \in 1..Len(epochEvents) : epochEvents[j].sender = a}

\* C16: after ExecuteEpoch the base event log holds the message-processed
\* event of every UnjailRequest that was processed successfully, and none for
\* an unjail that failed.
C16_UnjailEventInBaseLog ==
    \A a \in AddrStrings :
        Cardinality(UnjailEventsOf(a))
            = Cardinality({i \in RunsOf(TypeMsgUnjail) :
                              epochLog[i].addr = a /\ epochLog[i].result = "ok"})

\* C17: no entry is removed from a queue while a traversal of that queue is
\* open: ExecuteEpoch deletes no action before its iterator is exhausted.
C17_NoDeleteDuringTraversal == openDeletes = 0

\* ------------------------------------------------------------------------
\* Tally decision
\* ------------------------------------------------------------------------
BelowQuorum(v) ==
    (v.yes + v.no + v.abstain + v.veto) * 100 < TallyParams.quorum * TotalBonded.power
Vetoed(v) == v.veto * 100 > TallyParams.veto_threshold * (v.yes + v.no + v.veto)
YesMajority(v) == v.yes * 100 > TallyParams.threshold * (v.yes + v.no)

\* C12: the tally follows the stated procedure for every vote totals: below
\* quorum gives (passes=false, burn=true); else a veto share above the veto
\* threshold gives (false, false); else passes is yes/(yes+no) > threshold with
\* burn=false.  burn and passes never come together, so a proposal whose
\* deposits are burned ends neither Passed nor Failed; yes=50 of 100 bonded
\* gives (true, false) and yes=10 gives (false, true).
C12_TallyFollowsProcedure ==
    /\ tallyResult.done =>
          /\ BelowQuorum(tallyVotes) => (~tallyResult.passes /\ tallyResult.burn)
          /\ (~BelowQuorum(tallyVotes) /\ Vetoed(tallyVotes))
                => (~tallyResult.passes /\ ~tallyResult.burn)
          /\ (~BelowQuorum(tallyVotes) /\ ~Vetoed(tallyVotes))
                => (tallyResult.passes = YesMajority(tallyVotes) /\ ~tallyResult.burn)
          /\ ~(tallyResult.burn /\ tallyResult.passes)
          /\ tallyResult.tally = tallyVotes
          /\ tallyVotes = VotesPassing => (tallyResult.passes /\ ~tallyResult.burn)
          /\ tallyVotes = VotesBelowQuorum => (~tallyResult.passes /\ tallyResult.burn)
    /\ LET p == proposals[TallyProposalId]
       IN  (p.version # 0 /\ p.status \in TerminalStatuses) =>
              /\ p.finalTally = tallyVotes
              /\ (burned[TallyProposalId] > 0) = BelowQuorum(tallyVotes)
              /\ burned[TallyProposalId] > 0 => p.status = StatusRejected
              /\ (p.status \in {StatusPassed, StatusFailed})
                    = (/\ ~BelowQuorum(tallyVotes)
                       /\ ~Vetoed(tallyVotes)
                       /\ YesMajority(tallyVotes))

\* A vetoed proposal that met quorum and had a yes majority: tallied as
\* (false, false) and ended Rejected with its deposits refunded.
C12_Witness ==
    /\ tallyResult.done
    /\ ~BelowQuorum(tallyVotes) /\ Vetoed(tallyVotes) /\ YesMajority(tallyVotes)
    /\ ~tallyResult.passes /\ ~tallyResult.burn
    /\ proposals[TallyProposalId].status = StatusRejected
    /\ burned[TallyProposalId] = 0

\* ------------------------------------------------------------------------
\* Payload execution
\* ------------------------------------------------------------------------
\* The handler calls made for proposal id before position i of the call log.
EarlierCalls(id, i) == {j \in 1..(i - 1) : calls[j].id = id}

\* C13: the handlers of a passed V2 proposal are invoked strictly in list
\* order and the loop stops at the first one that returns an error: no handler
\* of a later message is invoked.
C13_HandlersInOrderUntilFirstError ==
    \A i \in 1..Len(calls) :
        proposals[calls[i].id].version = 2 =>
            /\ calls[i].idx = Cardinality(EarlierCalls(calls[i].id, i)) + 1
            /\ calls[i].idx <= proposals[calls[i].id].nmsgs
            /\ \A j \in EarlierCalls(calls[i].id, i) :
                  /\ calls[j].ok
                  /\ calls[j].idx < calls[i].idx
                  /\ calls[j].time = calls[i].time

\* The first of two messages failed and the second was never handled.
C13_Witness ==
    \E i \in 1..Len(calls) :
        /\ proposals[calls[i].id].version = 2
        /\ proposals[calls[i].id].nmsgs = MaxMsgs
        /\ proposals[calls[i].id].status \in TerminalStatuses
        /\ calls[i].idx < MaxMsgs
        /\ ~calls[i].ok
        /\ \A j \in 1..Len(calls) : calls[j].id = calls[i].id => calls[j].idx <= calls[i].idx

CallsOf(id) == {i \in 1..Len(calls) : calls[i].id = id}
PayloadSize(p) == IF p.version = 1 THEN 1 ELSE p.nmsgs

\* Every handler of the payload of proposal id ran and none returned an error.
ExecutedCleanly(id) ==
    /\ Cardinality(CallsOf(id)) = PayloadSize(proposals[id])
    /\ \A i \in CallsOf(id) : calls[i].ok

\* Some write or event of the cached scope of proposal id is in the base state.
ScopeVisible(id) ==
    \/ \E w \in store : w[1] = id
    \/ \E j \in 1..Len(events) : events[j].type = EventTypeMessage /\ events[j].id = id

\* C14: a payload that executes with no handler error leaves the proposal
\* Passed, with all writes of the cached scope committed and its events
\* appended to the block's event log; writes and events of the scope are
\* visible in the base state in this case only.
C14_ScopeVisibleOnlyOnCleanExecution ==
    \A id \in ProposalIds :
        proposals[id].version # 0 =>
            /\ ExecutedCleanly(id) =>
                  /\ proposals[id].status = StatusPassed
                  /\ \A k \in 1..PayloadSize(proposals[id]) :
                        /\ <<id, k>> \in store
                        /\ \E j \in 1..Len(events) : events[j] = HandlerEvent(id, k)
            /\ ScopeVisible(id) =>
                  /\ ExecutedCleanly(id)
                  /\ proposals[id].status = StatusPassed

\* ------------------------------------------------------------------------
\* Drains: idempotence, order, frame
\* ------------------------------------------------------------------------
\* C18: EndBlocker is idempotent per block: right after a run at some block
\* time no expired entry is left in a queue, and a second run at the same
\* block time changes no proposal, deposit, burned or refunded amount, executes
\* no payload and emits no event.
C18_SecondRunChangesNothing ==
    (Running /\ blockTime > 0) =>
        /\ \A k \in inactiveQueue \cup activeQueue : k[1] > blockTime
        /\ Executing(blockTime) = {}
        /\ \A h \in HandlerOutcomes(blockTime) : EndBlockerResult(Ctx, blockTime, h) = Ctx

\* A run that resolved an expired voting entry with a payload execution and
\* dropped an expired deposit entry.
C18_Witness ==
    /\ Running /\ blockTime > 0
    /\ Len(calls) > 0
    /\ \E j \in 1..Len(events) : events[j].type = EventTypeInactiveProposal
    /\ \E j \in 1..Len(events) : events[j].type = EventTypeActiveProposal

\* The queue key under which proposal id is waiting before the step.
QueueKeyOf(id) ==
    IF proposals[id].status = StatusDepositPeriod
    THEN <<proposals[id].depositEndTime, id>>
    ELSE <<proposals[id].votingEndTime, id>>

\* Proposal a is drained before proposal b in one EndBlocker call: the V1 drains
\* come before the V2 drains, the inactive drain of a version before its active
\* drain, and within a drain the (expiry time, id) keys ascend.
DrainedBefore(a, b) ==
    LET pa == proposals[a]
        pb == proposals[b]
    IN  \/ pa.version < pb.version
        \/ /\ pa.version = pb.version
           /\ pa.status = StatusDepositPeriod
           /\ pb.status = StatusVotingPeriod
        \/ /\ pa.version = pb.version
           /\ pa.status = pb.status
           /\ \/ QueueKeyOf(a)[1] < QueueKeyOf(b)[1]
              \/ /\ QueueKeyOf(a)[1] = QueueKeyOf(b)[1]
                 /\ a < b

IsTerminalEvent(e) == e.type \in {EventTypeInactiveProposal, EventTypeActiveProposal}

\* C19: within each drain the expired entries are processed in strictly
\* ascending (expiry time, proposal id) order, so the order of the terminal
\* events, of the log records and of the payload executions of a block is
\* fixed by the queue keys; and the inactive drain of a proposal version is
\* complete before its active drain starts.
C19_DrainsFollowQueueOrder ==
    [][EndBlockerStep =>
        /\ \A i, j \in 1..Len(NewEvents) :
              (i < j /\ IsTerminalEvent(NewEvents[i]) /\ IsTerminalEvent(NewEvents[j]))
                 => DrainedBefore(NewEvents[i].id, NewEvents[j].id)
        /\ \A i, j \in 1..Len(NewCalls) :
              (i < j /\ NewCalls[i].id # NewCalls[j].id)
                 => DrainedBefore(NewCalls[i].id, NewCalls[j].id)
        /\ \A i, j \in (Len(log) + 1)..Len(log') :
              i < j => DrainedBefore(log'[i].id, log'[j].id)]_vars

\* Two voting entries of one version resolved in the same block, the one with
\* the larger id first because it expired earlier.
C19_Witness ==
    \E i, j \in 1..Len(log) :
        /\ i < j
        /\ log[i].time = log[j].time
        /\ log[i].id > log[j].id
        /\ proposals[log[i].id].version = proposals[log[j].id].version
        /\ proposals[log[i].id].version # 0
        /\ proposals[log[i].id].votingEndTime < proposals[log[j].id].votingEndTime
        /\ \E c \in 1..Len(calls) : calls[c].id = log[i].id

\* Proposal id is stored and is no business of a drain at block time t: its
\* period has not ended, or it is in a terminal status already.
Undue(id, t) ==
    /\ IsStored(id)
    /\ \/ proposals[id].status = StatusDepositPeriod /\ proposals[id].depositEndTime > t
       \/ proposals[id].status = StatusVotingPeriod /\ proposals[id].votingEndTime > t
       \/ proposals[id].status \in TerminalStatuses

\* C20: EndBlocker leaves unexpired entries alone: a proposal whose deposit or
\* voting period ends after the block time keeps its record, status, deposits
\* and queue entry and gets no terminal event, and a proposal already in a
\* terminal status is not modified or given another event.
C20_UndueProposalsUntouched ==
    [][EndBlockerStep =>
        \A id \in ProposalIds :
            Undue(id, blockTime') =>
                /\ proposals'[id] = proposals[id]
                /\ deposits'[id] = deposits[id]
                /\ burned'[id] = burned[id]
                /\ refunded'[id] = refunded[id]
                /\ {k \in inactiveQueue' : k[2] = id} = {k \in inactiveQueue : k[2] = id}
                /\ {k \in activeQueue' : k[2] = id} = {k \in activeQueue : k[2] = id}
                /\ NewTerminalEvents(id) = {}
                /\ \A j \in 1..Len(NewCalls) : NewCalls[j].id # id
                /\ \A j \in (Len(log) + 1)..Len(log') : log'[j].id # id]_vars

\* After a drain that resolved one entry, a voting-period proposal that ends
\* later is still queued with its deposits.
C20_Witness ==
    /\ Running /\ blockTime > 0
    /\ \E j \in 1..Len(log) : log[j].time = blockTime
    /\ \E id \in ProposalIds :
          /\ IsStored(id)
          /\ proposals[id].status = StatusVotingPeriod
          /\ proposals[id].votingEndTime > blockTime
          /\ <<proposals[id].votingEndTime, id>> \in activeQueue
          /\ deposits[id] # NoDeposits

====
